---- MODULE Spec2Model ----
(***************************************************************************)
(* asyncstream/readers.py: the asynchronous generators that decompress a   *)
(* chunked byte stream, reassemble its lines, batch them for the csv row   *)
(* tokenizer, and the AsyncReader facade built by reader().                *)
(*                                                                         *)
(* Bytes are sequences of one-character strings.  A generator is a record  *)
(* holding its local variables and the place it is suspended at (pc); one  *)
(* __anext__() of a generator is an operator that runs it from that place  *)
(* to its next yield, its return or the exception that ends it.            *)
(***************************************************************************)
EXTENDS Naturals, Sequences, FiniteSets

(***************************************************************************)
(* Bounds of the model.                                                    *)
(***************************************************************************)
MaxPayload == 3
MaxChunks == 3

(***************************************************************************)
(* Bytes.  LF and CR are the line boundaries bytes.splitlines knows; "a"   *)
(* and "," are ordinary bytes ("," is the csv delimiter of the excel       *)
(* dialect).                                                               *)
(***************************************************************************)
Chars == {"a", ",", "LF", "CR"}

BytesUpTo(n) == UNION {[1..k -> Chars] : k \in 0..n}

Last(s) == s[Len(s)]

RECURSIVE Concat(_)
Concat(ss) == IF ss = <<>> THEN <<>> ELSE Head(ss) \o Concat(Tail(ss))

(***************************************************************************)
(* bytes.splitlines(True): the lines of s, each with its line boundary     *)
(* (LF, CR or CR LF) kept; a last line without a boundary is kept too.     *)
(***************************************************************************)
LineEnd(s) ==
    LET brk == {i \in 1..Len(s) : s[i] \in {"LF", "CR"}}
    IN  IF brk = {} THEN Len(s)
        ELSE LET i == CHOOSE j \in brk : \A k \in brk : j <= k
             IN  IF s[i] = "CR" /\ i < Len(s) /\ s[i + 1] = "LF" THEN i + 1 ELSE i

RECURSIVE splitlines(_)
splitlines(s) ==
    IF s = <<>> THEN <<>>
    ELSE <<SubSeq(s, 1, LineEnd(s))>> \o splitlines(SubSeq(s, LineEnd(s) + 1, Len(s)))

(***************************************************************************)
(* The codecs are opaque.  A chunk of a compressed stream is the frame     *)
(* marker "Z" followed by the bytes it decompresses to; decompress(buf)    *)
(* returns those bytes, returns nothing for an empty chunk, and raises on  *)
(* anything else (a corrupt chunk, or bytes that were never compressed).   *)
(* flush() returns the bytes the decompression object still holds.         *)
(***************************************************************************)
compress(plain) == <<"Z">> \o plain

BadChunk == <<"BAD">>

decompress(buf) ==
    IF buf = <<>> THEN [ok |-> TRUE, data |-> <<>>]
    ELSE IF Head(buf) = "Z" THEN [ok |-> TRUE, data |-> Tail(buf)]
    ELSE [ok |-> FALSE, data |-> <<>>]

NewDecomp(held) == [held |-> held, fed |-> 0, flushed |-> 0]

feed(dc) == [dc EXCEPT !.fed = @ + 1]

flush(dc) == [dc EXCEPT !.held = <<>>, !.flushed = @ + 1]

(***************************************************************************)
(* What one __anext__() of a generator gives: a yielded value, the end of  *)
(* the iteration (StopAsyncIteration) or an exception.                     *)
(***************************************************************************)
Yield(v) == [kind |-> "yield", val |-> v]
Stop == [kind |-> "stop", val |-> <<>>]
Raise(e) == [kind |-> "raise", val |-> <<e>>]

NewLineGen == [pc |-> "start", out_buf |-> <<>>, lines |-> <<>>, i |-> 0, bound |-> FALSE]

LineDone(g) == [g EXCEPT !.pc = "done"]

(***************************************************************************)
(* open_gzip (lines 37-54).  gzip_loop is the `async for buf in fd` loop   *)
(* from its head, run until the generator yields, returns or raises.       *)
(***************************************************************************)
RECURSIVE gzip_loop(_, _, _)
gzip_loop(g, fd, dc) ==
    IF fd = <<>>
    THEN \* the source is exhausted: lines 52-54
         LET ob == g.out_buf \o dc.held
             tl == splitlines(ob)
             g2 == [g EXCEPT !.out_buf = ob, !.lines = tl, !.i = 1]
         IN  IF tl = <<>>
             THEN [g |-> LineDone(g2), fd |-> fd, dc |-> flush(dc), out |-> Stop]
             ELSE [g |-> [g2 EXCEPT !.pc = "yield_tail"], fd |-> fd, dc |-> flush(dc),
                   out |-> Yield(tl[1])]
    ELSE \* one chunk: lines 41-50
         LET d == decompress(Head(fd))
         IN  IF ~d.ok
             THEN [g |-> LineDone(g), fd |-> Tail(fd), dc |-> feed(dc),
                   out |-> Raise("DecodeError")]
             ELSE LET ob == g.out_buf \o d.data
                      ls == splitlines(ob)
                      g2 == [g EXCEPT !.out_buf = ob, !.lines = ls, !.i = 1, !.bound = TRUE]
                  IN  IF Len(ls) > 1
                      THEN [g |-> [g2 EXCEPT !.pc = "yield_loop"], fd |-> Tail(fd),
                            dc |-> feed(dc), out |-> Yield(ls[1])]
                      ELSE gzip_loop([g2 EXCEPT !.out_buf = IF ls # <<>> THEN Last(ls) ELSE <<>>],
                                     Tail(fd), feed(dc))

\* open_gzip with lines 47-50 left out: the last line is not kept
open_gzip_keeps_nothing(g, fd, dc) ==
    CASE g.pc = "start" -> gzip_loop(g, fd, dc)
      [] g.pc = "yield_loop" ->
            IF g.i + 1 <= Len(g.lines) - 1
            THEN [g |-> [g EXCEPT !.i = @ + 1], fd |-> fd, dc |-> dc,
                  out |-> Yield(g.lines[g.i + 1])]
            ELSE gzip_loop([g EXCEPT !.out_buf = <<>>], fd, dc)
      [] g.pc = "yield_tail" ->
            IF g.i + 1 <= Len(g.lines)
            THEN [g |-> [g EXCEPT !.i = @ + 1], fd |-> fd, dc |-> dc,
                  out |-> Yield(g.lines[g.i + 1])]
            ELSE [g |-> LineDone(g), fd |-> fd, dc |-> dc, out |-> Stop]
      [] OTHER -> [g |-> g, fd |-> fd, dc |-> dc, out |-> Stop]

open_gzip(g, fd, dc) ==
    CASE g.pc = "start" -> gzip_loop(g, fd, dc)
      [] g.pc = "yield_loop" ->
            IF g.i + 1 <= Len(g.lines) - 1
            THEN [g |-> [g EXCEPT !.i = @ + 1], fd |-> fd, dc |-> dc,
                  out |-> Yield(g.lines[g.i + 1])]
            ELSE gzip_loop([g EXCEPT !.out_buf = Last(g.lines)], fd, dc)
      [] g.pc = "yield_tail" ->
            IF g.i + 1 <= Len(g.lines)
            THEN [g |-> [g EXCEPT !.i = @ + 1], fd |-> fd, dc |-> dc,
                  out |-> Yield(g.lines[g.i + 1])]
            ELSE [g |-> LineDone(g), fd |-> fd, dc |-> dc, out |-> Stop]
      [] OTHER -> [g |-> g, fd |-> fd, dc |-> dc, out |-> Stop]

(***************************************************************************)
(* open_bzip2 (lines 57-73).  The last line of every chunk is kept in      *)
(* out_buf (lines 67-70) and also yielded, inside the loop (lines 72-73);  *)
(* nothing follows the loop.                                               *)
(***************************************************************************)
RECURSIVE bzip2_loop(_, _, _)
bzip2_loop(g, fd, dc) ==
    IF fd = <<>>
    THEN [g |-> LineDone(g), fd |-> fd, dc |-> dc, out |-> Stop]
    ELSE LET d == decompress(Head(fd))
         IN  IF ~d.ok
             THEN [g |-> LineDone(g), fd |-> Tail(fd), dc |-> feed(dc),
                   out |-> Raise("DecodeError")]
             ELSE LET ob == g.out_buf \o d.data
                      ls == splitlines(ob)
                      g2 == [g EXCEPT !.out_buf = ob, !.lines = ls, !.i = 1, !.bound = TRUE]
                  IN  IF Len(ls) > 1
                      THEN [g |-> [g2 EXCEPT !.pc = "yield_loop"], fd |-> Tail(fd),
                            dc |-> feed(dc), out |-> Yield(ls[1])]
                      ELSE IF ls # <<>>
                      THEN [g |-> [g2 EXCEPT !.pc = "yield_last", !.out_buf = Last(ls)],
                            fd |-> Tail(fd), dc |-> feed(dc), out |-> Yield(Last(ls))]
                      ELSE bzip2_loop([g2 EXCEPT !.out_buf = <<>>], Tail(fd), feed(dc))

open_bzip2(g, fd, dc) ==
    CASE g.pc = "start" -> bzip2_loop(g, fd, dc)
      [] g.pc = "yield_loop" ->
            IF g.i + 1 <= Len(g.lines) - 1
            THEN [g |-> [g EXCEPT !.i = @ + 1], fd |-> fd, dc |-> dc,
                  out |-> Yield(g.lines[g.i + 1])]
            ELSE [g |-> [g EXCEPT !.pc = "yield_last", !.out_buf = Last(g.lines)],
                  fd |-> fd, dc |-> dc, out |-> Yield(Last(g.lines))]
      [] g.pc = "yield_last" -> bzip2_loop(g, fd, dc)
      [] OTHER -> [g |-> g, fd |-> fd, dc |-> dc, out |-> Stop]

(***************************************************************************)
(* open_zstd (lines 76-93).  After the loop the last line of the last      *)
(* chunk's `lines` is yielded (lines 92-93); `lines` is assigned only      *)
(* inside the loop, so it is unbound when the source gave no chunk.        *)
(***************************************************************************)
RECURSIVE zstd_loop(_, _, _)
zstd_loop(g, fd, dc) ==
    IF fd = <<>>
    THEN IF ~g.bound
         THEN [g |-> LineDone(g), fd |-> fd, dc |-> dc, out |-> Raise("UnboundLocalError")]
         ELSE IF g.lines # <<>>
         THEN [g |-> [g EXCEPT !.pc = "yield_last"], fd |-> fd, dc |-> dc,
               out |-> Yield(Last(g.lines))]
         ELSE [g |-> LineDone(g), fd |-> fd, dc |-> dc, out |-> Stop]
    ELSE LET d == decompress(Head(fd))
         IN  IF ~d.ok
             THEN [g |-> LineDone(g), fd |-> Tail(fd), dc |-> feed(dc),
                   out |-> Raise("DecodeError")]
             ELSE LET ob == g.out_buf \o d.data
                      ls == splitlines(ob)
                      g2 == [g EXCEPT !.out_buf = ob, !.lines = ls, !.i = 1, !.bound = TRUE]
                  IN  IF Len(ls) > 1
                      THEN [g |-> [g2 EXCEPT !.pc = "yield_loop"], fd |-> Tail(fd),
                            dc |-> feed(dc), out |-> Yield(ls[1])]
                      ELSE zstd_loop([g2 EXCEPT !.out_buf = IF ls # <<>> THEN Last(ls) ELSE <<>>],
                                     Tail(fd), feed(dc))

open_zstd(g, fd, dc) ==
    CASE g.pc = "start" -> zstd_loop(g, fd, dc)
      [] g.pc = "yield_loop" ->
            IF g.i + 1 <= Len(g.lines) - 1
            THEN [g |-> [g EXCEPT !.i = @ + 1], fd |-> fd, dc |-> dc,
                  out |-> Yield(g.lines[g.i + 1])]
            ELSE zstd_loop([g EXCEPT !.out_buf = Last(g.lines)], fd, dc)
      [] g.pc = "yield_last" -> [g |-> LineDone(g), fd |-> fd, dc |-> dc, out |-> Stop]
      [] OTHER -> [g |-> g, fd |-> fd, dc |-> dc, out |-> Stop]

(***************************************************************************)
(* csv.reader with the excel dialect, on input without quote characters.   *)
(* It takes one item of the batch per row: the item's text up to its first *)
(* line boundary, split at the commas.  An item that is empty or starts    *)
(* with a line boundary gives the empty row; anything but line boundaries  *)
(* after the first one is an error ("new-line character seen in unquoted   *)
(* field").                                                                *)
(*                                                                         *)
(* bytes.decode('utf-8') gives the text of ASCII bytes, character for      *)
(* character, and raises UnicodeDecodeError on the byte 0xFF.              *)
(***************************************************************************)
decode(line) == [ok |-> \A i \in 1..Len(line) : line[i] # "xFF", text |-> line]

RECURSIVE split(_)
split(s) ==
    LET com == {i \in 1..Len(s) : s[i] = ","}
    IN  IF com = {} THEN <<s>>
        ELSE LET i == CHOOSE j \in com : \A k \in com : j <= k
             IN  <<SubSeq(s, 1, i - 1)>> \o split(SubSeq(s, i + 1, Len(s)))

csv_row(item) ==
    LET brk == {i \in 1..Len(item) : item[i] \in {"LF", "CR"}}
        b == IF brk = {} THEN Len(item) + 1 ELSE CHOOSE j \in brk : \A k \in brk : j <= k
    IN  IF \E i \in (b + 1)..Len(item) : item[i] \notin {"LF", "CR"}
        THEN [ok |-> FALSE, row |-> <<>>]
        ELSE [ok |-> TRUE, row |-> IF b = 1 THEN <<>> ELSE split(SubSeq(item, 1, b - 1))]

(***************************************************************************)
(* The sequence reader_compressed takes its lines from (lines 159-168):    *)
(* the source itself when compression is None, else a line generator.      *)
(***************************************************************************)
None == "None"

Compressions == {None, "gzip", "bzip2", "zstd"}

lines_anext(comp, g, fd, dc) ==
    CASE comp = "gzip" -> open_gzip(g, fd, dc)
      [] comp = "bzip2" -> open_bzip2(g, fd, dc)
      [] comp = "zstd" -> open_zstd(g, fd, dc)
      [] OTHER -> IF fd = <<>> THEN [g |-> g, fd |-> fd, dc |-> dc, out |-> Stop]
                  ELSE [g |-> g, fd |-> Tail(fd), dc |-> dc, out |-> Yield(Head(fd))]

(***************************************************************************)
(* reader_compressed (lines 157-183).  One __anext__() gives, beside the   *)
(* generator and the pipeline below it, the records it took from the line  *)
(* sequence (recs) and the batch it handed to csv.reader, if it made one   *)
(* (batch: a sequence of at most one batch; final tells, of a batch, that   *)
(* it is the one of lines 181-183).                                        *)
(***************************************************************************)
NewRowGen == [pc |-> "start", buffer |-> <<>>, buffer_len |-> 0, j |-> 0]

RowDone(rc) == [rc EXCEPT !.pc = "done"]

\* csv_next that swallows the tokenizer's error and gives an empty row instead
csv_next_swallows(rc, pc, w, recs, batch) ==
    [rc |-> [rc EXCEPT !.pc = pc, !.j = @ + 1], g |-> w.g, fd |-> w.fd, dc |-> w.dc,
     out |-> Yield(csv_row(rc.buffer[rc.j + 1]).row), recs |-> recs, batch |-> batch,
     final |-> (pc = "yield_final")]

\* the next row of the csv.reader pass over rc.buffer, whose j-th item was read last
csv_next(rc, pc, w, recs, batch) ==
    LET r == csv_row(rc.buffer[rc.j + 1])
    IN  IF r.ok
        THEN [rc |-> [rc EXCEPT !.pc = pc, !.j = @ + 1], g |-> w.g, fd |-> w.fd, dc |-> w.dc,
              out |-> Yield(r.row), recs |-> recs, batch |-> batch,
              final |-> (pc = "yield_final")]
        ELSE [rc |-> RowDone(rc), g |-> w.g, fd |-> w.fd, dc |-> w.dc,
              out |-> Raise("csv.Error"), recs |-> recs, batch |-> batch,
              final |-> (pc = "yield_final")]

RECURSIVE rows_loop(_, _, _, _, _)

\* rows_step with lines 181-183 left out: what is left in the buffer at the end
\* of the line sequence is dropped
rows_step_no_final(rc, comp, buffer_size, recs, r) ==
    CASE r.out.kind = "raise" ->
            [rc |-> RowDone(rc), g |-> r.g, fd |-> r.fd, dc |-> r.dc, out |-> r.out,
             recs |-> recs, batch |-> <<>>]
      [] r.out.kind = "stop" ->
            [rc |-> RowDone(rc), g |-> r.g, fd |-> r.fd, dc |-> r.dc, out |-> Stop,
             recs |-> recs, batch |-> <<>>]
      [] OTHER ->
            IF ~decode(r.out.val).ok
            THEN [rc |-> RowDone([rc EXCEPT !.buffer_len = @ + Len(r.out.val)]),
                  g |-> r.g, fd |-> r.fd, dc |-> r.dc, out |-> Raise("UnicodeDecodeError"),
                  recs |-> Append(recs, r.out.val), batch |-> <<>>]
            ELSE IF rc.buffer_len + Len(r.out.val) >= buffer_size
            THEN csv_next([rc EXCEPT !.buffer_len = @ + Len(r.out.val),
                                     !.buffer = Append(@, decode(r.out.val).text), !.j = 0],
                          "yield_flush", r, Append(recs, r.out.val),
                          <<Append(rc.buffer, decode(r.out.val).text)>>)
            ELSE rows_loop([rc EXCEPT !.buffer_len = @ + Len(r.out.val),
                                      !.buffer = Append(@, decode(r.out.val).text), !.j = 0],
                           comp, buffer_size, r, Append(recs, r.out.val))

\* rows_step with the test of line 175 left out: every record is tokenized as
\* soon as it is appended
rows_step_no_threshold(rc, comp, buffer_size, recs, r) ==
    CASE r.out.kind = "raise" ->
            [rc |-> RowDone(rc), g |-> r.g, fd |-> r.fd, dc |-> r.dc, out |-> r.out,
             recs |-> recs, batch |-> <<>>]
      [] r.out.kind = "stop" ->
            IF rc.buffer # <<>>
            THEN csv_next([rc EXCEPT !.j = 0], "yield_final", r, recs, <<rc.buffer>>)
            ELSE [rc |-> RowDone(rc), g |-> r.g, fd |-> r.fd, dc |-> r.dc, out |-> Stop,
                  recs |-> recs, batch |-> <<>>]
      [] OTHER ->
            IF ~decode(r.out.val).ok
            THEN [rc |-> RowDone([rc EXCEPT !.buffer_len = @ + Len(r.out.val)]),
                  g |-> r.g, fd |-> r.fd, dc |-> r.dc, out |-> Raise("UnicodeDecodeError"),
                  recs |-> Append(recs, r.out.val), batch |-> <<>>]
            ELSE csv_next([rc EXCEPT !.buffer_len = @ + Len(r.out.val),
                                     !.buffer = Append(@, decode(r.out.val).text), !.j = 0],
                          "yield_flush", r, Append(recs, r.out.val),
                          <<Append(rc.buffer, decode(r.out.val).text)>>)

\* the body of `async for line in lines` (lines 172-183), r being what the line
\* sequence gave
rows_step(rc, comp, buffer_size, recs, r) ==
    CASE r.out.kind = "raise" ->
            [rc |-> RowDone(rc), g |-> r.g, fd |-> r.fd, dc |-> r.dc, out |-> r.out,
             recs |-> recs, batch |-> <<>>]
      [] r.out.kind = "stop" ->
            \* lines 181-183
            IF rc.buffer # <<>>
            THEN csv_next([rc EXCEPT !.j = 0], "yield_final", r, recs, <<rc.buffer>>)
            ELSE [rc |-> RowDone(rc), g |-> r.g, fd |-> r.fd, dc |-> r.dc, out |-> Stop,
                  recs |-> recs, batch |-> <<>>]
      [] OTHER ->
            \* lines 173-179
            IF ~decode(r.out.val).ok
            THEN [rc |-> RowDone([rc EXCEPT !.buffer_len = @ + Len(r.out.val)]),
                  g |-> r.g, fd |-> r.fd, dc |-> r.dc, out |-> Raise("UnicodeDecodeError"),
                  recs |-> Append(recs, r.out.val), batch |-> <<>>]
            ELSE IF rc.buffer_len + Len(r.out.val) >= buffer_size
            THEN csv_next([rc EXCEPT !.buffer_len = @ + Len(r.out.val),
                                     !.buffer = Append(@, decode(r.out.val).text), !.j = 0],
                          "yield_flush", r, Append(recs, r.out.val),
                          <<Append(rc.buffer, decode(r.out.val).text)>>)
            ELSE rows_loop([rc EXCEPT !.buffer_len = @ + Len(r.out.val),
                                      !.buffer = Append(@, decode(r.out.val).text), !.j = 0],
                           comp, buffer_size, r, Append(recs, r.out.val))

rows_loop(rc, comp, buffer_size, w, recs) ==
    rows_step(rc, comp, buffer_size, recs, lines_anext(comp, w.g, w.fd, w.dc))

\* reader_compressed with line 179 left out: the counter is not reset
reader_compressed_keeps_count(rc, comp, buffer_size, g, fd, dc) ==
    LET w == [g |-> g, fd |-> fd, dc |-> dc]
    IN  CASE rc.pc = "start" ->
                IF comp \in Compressions
                THEN rows_loop(rc, comp, buffer_size, w, <<>>)
                ELSE [rc |-> RowDone(rc), g |-> g, fd |-> fd, dc |-> dc,
                      out |-> Raise("ValueError"), recs |-> <<>>, batch |-> <<>>]
          [] rc.pc = "yield_flush" ->
                IF rc.j + 1 <= Len(rc.buffer)
                THEN csv_next(rc, "yield_flush", w, <<>>, <<>>)
                ELSE rows_loop([rc EXCEPT !.buffer = <<>>], comp, buffer_size, w, <<>>)
          [] rc.pc = "yield_final" ->
                IF rc.j + 1 <= Len(rc.buffer)
                THEN csv_next(rc, "yield_final", w, <<>>, <<>>)
                ELSE [rc |-> RowDone(rc), g |-> g, fd |-> fd, dc |-> dc, out |-> Stop,
                      recs |-> <<>>, batch |-> <<>>]
          [] OTHER -> [rc |-> rc, g |-> g, fd |-> fd, dc |-> dc, out |-> Stop,
                       recs |-> <<>>, batch |-> <<>>]

\* reader_compressed with line 178 left out: a flushed batch is not emptied
reader_compressed_keeps_batch(rc, comp, buffer_size, g, fd, dc) ==
    LET w == [g |-> g, fd |-> fd, dc |-> dc]
    IN  CASE rc.pc = "start" ->
                IF comp \in Compressions
                THEN rows_loop(rc, comp, buffer_size, w, <<>>)
                ELSE [rc |-> RowDone(rc), g |-> g, fd |-> fd, dc |-> dc,
                      out |-> Raise("ValueError"), recs |-> <<>>, batch |-> <<>>]
          [] rc.pc = "yield_flush" ->
                IF rc.j + 1 <= Len(rc.buffer)
                THEN csv_next(rc, "yield_flush", w, <<>>, <<>>)
                ELSE rows_loop([rc EXCEPT !.buffer_len = 0], comp, buffer_size, w, <<>>)
          [] rc.pc = "yield_final" ->
                IF rc.j + 1 <= Len(rc.buffer)
                THEN csv_next(rc, "yield_final", w, <<>>, <<>>)
                ELSE [rc |-> RowDone(rc), g |-> g, fd |-> fd, dc |-> dc, out |-> Stop,
                      recs |-> <<>>, batch |-> <<>>]
          [] OTHER -> [rc |-> rc, g |-> g, fd |-> fd, dc |-> dc, out |-> Stop,
                       recs |-> <<>>, batch |-> <<>>]

reader_compressed(rc, comp, buffer_size, g, fd, dc) ==
    LET w == [g |-> g, fd |-> fd, dc |-> dc]
    IN  CASE rc.pc = "start" ->
                \* lines 159-171
                IF comp \in Compressions
                THEN rows_loop(rc, comp, buffer_size, w, <<>>)
                ELSE [rc |-> RowDone(rc), g |-> g, fd |-> fd, dc |-> dc,
                      out |-> Raise("ValueError"), recs |-> <<>>, batch |-> <<>>]
          [] rc.pc = "yield_flush" ->
                \* lines 176-179
                IF rc.j + 1 <= Len(rc.buffer)
                THEN csv_next(rc, "yield_flush", w, <<>>, <<>>)
                ELSE rows_loop([rc EXCEPT !.buffer = <<>>, !.buffer_len = 0],
                               comp, buffer_size, w, <<>>)
          [] rc.pc = "yield_final" ->
                \* lines 182-183
                IF rc.j + 1 <= Len(rc.buffer)
                THEN csv_next(rc, "yield_final", w, <<>>, <<>>)
                ELSE [rc |-> RowDone(rc), g |-> g, fd |-> fd, dc |-> dc, out |-> Stop,
                      recs |-> <<>>, batch |-> <<>>]
          [] OTHER -> [rc |-> rc, g |-> g, fd |-> fd, dc |-> dc, out |-> Stop,
                       recs |-> <<>>, batch |-> <<>>]

(***************************************************************************)
(* The table decoders (pd.read_parquet, orc.read_table) are opaque.  Here  *)
(* a buffer decodes to a table when it is not empty and holds plain bytes  *)
(* only (no compressed frame): its first line names the columns and every  *)
(* further line is a row.                                                  *)
(***************************************************************************)
read_table(buf) ==
    LET ls == splitlines(buf)
    IN  IF buf = <<>> \/ \E i \in 1..Len(buf) : buf[i] \notin Chars
        THEN [ok |-> FALSE, columns |-> <<>>, rows |-> <<>>]
        ELSE [ok |-> TRUE, columns |-> csv_row(Head(ls)).row,
              rows |-> [k \in 1..(Len(ls) - 1) |-> csv_row(ls[k + 1]).row]]

\* SpooledTemporaryFile: its bytes and the offset of the next read or write
NewSpool == [data |-> <<>>, pos |-> 0]

write(wfd, buf) ==
    [data |-> SubSeq(wfd.data, 1, wfd.pos) \o buf
                \o SubSeq(wfd.data, wfd.pos + Len(buf) + 1, Len(wfd.data)),
     pos |-> wfd.pos + Len(buf)]

seek(wfd, n) == [wfd EXCEPT !.pos = n]

\* what a reader of the file gets: the bytes from the offset on
readall(wfd) == SubSeq(wfd.data, wfd.pos + 1, Len(wfd.data))

\* `async for buf in fd: wfd.write(buf)`
RECURSIVE spool(_, _)
spool(wfd, fd) == IF fd = <<>> THEN wfd ELSE spool(write(wfd, Head(fd)), Tail(fd))

\* open_parquet_pandas with line 122 (wfd.seek(0)) left out
open_pandas_no_seek(fd) ==
    LET buf == readall(spool(NewSpool, fd))
    IN  [ok |-> read_table(buf).ok, columns |-> read_table(buf).columns,
         rows |-> read_table(buf).rows, buf |-> buf]

\* open_parquet_pandas, open_arrow_pandas: every chunk of fd is written to the
\* spooled file, in order, and the file is decoded from offset 0 (buf: what the
\* decoder was given)
open_pandas(fd) ==
    LET buf == readall(seek(spool(NewSpool, fd), 0))
    IN  [ok |-> read_table(buf).ok, columns |-> read_table(buf).columns,
         rows |-> read_table(buf).rows, buf |-> buf]

(***************************************************************************)
(* reader_columnar (lines 142-155).  The compression and buffer_size       *)
(* arguments are not used.  decoded lists the buffers the table decoder    *)
(* was called with.                                                        *)
(***************************************************************************)
Encodings == {"parquet", "orc"}

NewTableGen == [pc |-> "start", columns |-> <<>>, rows |-> <<>>, k |-> 0, decoded |-> <<>>]

TableDone(cg) == [cg EXCEPT !.pc = "done"]

\* lines 154-155, after the k-th row
table_next(cg, fd) ==
    IF cg.k + 1 <= Len(cg.rows)
    THEN [cg |-> [cg EXCEPT !.pc = "yield_row", !.k = @ + 1], fd |-> fd,
          out |-> Yield(cg.rows[cg.k + 1])]
    ELSE [cg |-> TableDone(cg), fd |-> fd, out |-> Stop]

reader_columnar(cg, enc, ignore, fd) ==
    CASE cg.pc = "start" ->
            IF enc \in Encodings
            THEN LET t == open_pandas(fd)
                     cg2 == [cg EXCEPT !.columns = t.columns, !.rows = t.rows,
                                       !.decoded = Append(@, t.buf)]
                 IN  IF ~t.ok
                     THEN [cg |-> TableDone(cg2), fd |-> <<>>, out |-> Raise("TableDecodeError")]
                     ELSE IF ~ignore
                     THEN [cg |-> [cg2 EXCEPT !.pc = "yield_header"], fd |-> <<>>,
                           out |-> Yield(t.columns)]
                     ELSE table_next(cg2, <<>>)
            ELSE [cg |-> TableDone(cg), fd |-> fd, out |-> Raise("ValueError")]
      [] cg.pc \in {"yield_header", "yield_row"} -> table_next(cg, fd)
      [] OTHER -> [cg |-> cg, fd |-> fd, out |-> Stop]

(***************************************************************************)
(* reader() and AsyncReader (lines 202-238).  p is the pipeline under the  *)
(* reader: [rc, cg, g, fd, dc].  reader() only creates the generator       *)
(* object of the path the encoding selects; nothing of it runs before its  *)
(* first __anext__().                                                      *)
(*                                                                         *)
(* _header is None or the awaitable that aiter.__anext__() returned, which *)
(* has been awaited ("awaited") or not yet ("pending").                    *)
(***************************************************************************)
reader(enc, ignore) ==
    [made |-> TRUE, path |-> IF enc # None THEN "columnar" ELSE "compressed",
     ignore_header |-> ignore, header |-> None]

\* what an __anext__() of either row generator gives, as one record
of_columnar(x, p) ==
    [rc |-> p.rc, cg |-> x.cg, g |-> p.g, fd |-> x.fd, dc |-> p.dc, out |-> x.out,
     recs |-> <<>>, batch |-> <<>>, final |-> FALSE]

of_compressed(x, p) ==
    [rc |-> x.rc, cg |-> p.cg, g |-> x.g, fd |-> x.fd, dc |-> x.dc, out |-> x.out,
     recs |-> x.recs, batch |-> x.batch, final |-> (x.batch # <<>> /\ x.final)]

\* self._aiter.__anext__(), awaited
aiter_anext(r, p, enc, comp, bsize) ==
    IF r.path = "columnar"
    THEN of_columnar(reader_columnar(p.cg, enc, r.ignore_header, p.fd), p)
    ELSE of_compressed(reader_compressed(p.rc, comp, bsize, p.g, p.fd, p.dc), p)

\* lines 209-210 with the `not` of `not self._ignore_header` dropped
header_slot_flipped(r) ==
    IF r.ignore_header /\ r.header = None THEN [r EXCEPT !.header = "pending"] ELSE r

\* lines 209-210 with the test of _ignore_header left out
header_slot_any(r) ==
    IF r.header = None THEN [r EXCEPT !.header = "pending"] ELSE r

\* lines 209-210: header() fills an empty _header with a new awaitable
header_slot(r) ==
    IF ~r.ignore_header /\ r.header = None THEN [r EXCEPT !.header = "pending"] ELSE r

\* lines 224-225: __anext__() does the same, and does not await it
anext_slot(r) ==
    IF ~r.ignore_header /\ r.header = None THEN [r EXCEPT !.header = "pending"] ELSE r

\* an awaitable of an asynchronous generator that was awaited before: CPython
\* from 3.8 raises RuntimeError, earlier ones give None
ReuseOutcomes == {Raise("RuntimeError"), [kind |-> "none", val |-> <<>>]}

(***************************************************************************)
(* State.                                                                  *)
(*   compression  the compression argument the pipeline was built with     *)
(*   buffer_size  the buffer_size argument                                 *)
(*   fd           the chunks the byte-stream source has still to deliver   *)
(*   decomp       the decompression object                                 *)
(*   lg           the line generator (open_gzip, open_bzip2 or open_zstd)  *)
(*   rc           the reader_compressed generator                          *)
(*   cg           the reader_columnar generator                            *)
(*   encoding, ignore_header   the other arguments of reader()             *)
(*   rd           the AsyncReader (made: whether reader() has returned it) *)
(*   last         how the latest __anext__() of the driven generator ended *)
(* History, read by the properties only:                                   *)
(*   chunks       the chunks of the source, as it delivers them            *)
(*   payload      the decompressed bytes of the whole stream               *)
(*   source       the decompressed bytes of each chunk of the source       *)
(*   records      the records the line sequence has delivered so far       *)
(*   batches      the batches handed to csv.reader so far                  *)
(*   finals       for each of them, whether lines 181-183 handed it over   *)
(*   rows         the rows the row generator has yielded so far            *)
(*   calls        the calls made on the reader, each with its outcome      *)
(***************************************************************************)
VARIABLES compression, buffer_size, fd, decomp, lg, rc, last,
          chunks, payload, source, records, batches, finals, rows,
          encoding, ignore_header, cg, rd, calls

lineVars == <<compression, fd, decomp, lg, last, chunks, payload, source, records>>

rowVars == <<buffer_size, rc, batches, finals, rows>>

readerVars == <<encoding, ignore_header, cg, rd, calls>>

vars == <<lineVars, rowVars, readerVars>>

(***************************************************************************)
(* The ways of cutting a payload of n bytes into k chunks, empty chunks    *)
(* included, and what is left for flush() after the k-th chunk.            *)
(***************************************************************************)
Cuts(k, n) == {c \in [1..k -> 0..n] : \A j \in 1..(k - 1) : c[j] <= c[j + 1]}

Piece(p, c, j) == SubSeq(p, (IF j = 1 THEN 0 ELSE c[j - 1]) + 1, c[j])

Rest(p, c) == SubSeq(p, (IF c = <<>> THEN 0 ELSE Last(c)) + 1, Len(p))

LineCodecs == {"gzip", "bzip2", "zstd"}

(***************************************************************************)
(* A compressed stream as the source delivers it.  Only the zlib object    *)
(* has a flush() that returns data; bz2 and zstd objects return all they   *)
(* have from decompress().  Nothing is held back of a stream of no chunks. *)
(***************************************************************************)
InitStream ==
    /\ payload \in BytesUpTo(MaxPayload)
    /\ \E k \in 0..MaxChunks : \E c \in Cuts(k, Len(payload)) :
          /\ source = [j \in 1..k |-> Piece(payload, c, j)]
          /\ fd = [j \in 1..k |-> IF compression = None THEN Piece(payload, c, j)
                                  ELSE compress(Piece(payload, c, j))]
          /\ chunks = fd
          /\ decomp = NewDecomp(Rest(payload, c))
          /\ (compression # "gzip" \/ k = 0) => Rest(payload, c) = <<>>

\* the part of the state a specification does not use
NoRows ==
    /\ buffer_size = 0
    /\ rc = NewRowGen
    /\ batches = <<>>
    /\ finals = <<>>
    /\ rows = <<>>

NoReader ==
    /\ encoding = None
    /\ ignore_header = TRUE
    /\ cg = NewTableGen
    /\ rd = [made |-> FALSE, path |-> "compressed", ignore_header |-> TRUE, header |-> None]
    /\ calls = <<>>

InitLines ==
    /\ compression \in LineCodecs
    /\ InitStream
    /\ lg = NewLineGen
    /\ last = "none"
    /\ records = <<>>
    /\ NoRows
    /\ NoReader

(***************************************************************************)
(* `async for line in open_gzip(fd)` and its like: the consumer asks for   *)
(* the next record until the generator ends.                               *)
(***************************************************************************)
PullLine(r) ==
    /\ lg' = r.g
    /\ fd' = r.fd
    /\ decomp' = r.dc
    /\ last' = r.out.kind
    /\ records' = IF r.out.kind = "yield" THEN Append(records, r.out.val) ELSE records
    /\ UNCHANGED <<compression, chunks, payload, source, rowVars, readerVars>>

GzipNext ==
    /\ compression = "gzip"
    /\ last \in {"none", "yield"}
    /\ \E r \in {open_gzip(lg, fd, decomp)} : PullLine(r)

Bzip2Next ==
    /\ compression = "bzip2"
    /\ last \in {"none", "yield"}
    /\ \E r \in {open_bzip2(lg, fd, decomp)} : PullLine(r)

ZstdNext ==
    /\ compression = "zstd"
    /\ last \in {"none", "yield"}
    /\ \E r \in {open_zstd(lg, fd, decomp)} : PullLine(r)

NextLines == GzipNext \/ Bzip2Next \/ ZstdNext

SpecLines == InitLines /\ [][NextLines]_vars

(***************************************************************************)
(* `async for row in reader_compressed(fd, compression, buffer_size)`.     *)
(***************************************************************************)
BufferSizes == 1..(MaxPayload + 1)

InitRows ==
    /\ compression \in Compressions
    /\ InitStream
    /\ buffer_size \in BufferSizes
    /\ lg = NewLineGen
    /\ rc = NewRowGen
    /\ last = "none"
    /\ records = <<>>
    /\ batches = <<>>
    /\ finals = <<>>
    /\ rows = <<>>
    /\ NoReader

PullRow(r) ==
    /\ rc' = r.rc
    /\ lg' = r.g
    /\ fd' = r.fd
    /\ decomp' = r.dc
    /\ last' = r.out.kind
    /\ records' = records \o r.recs
    /\ batches' = batches \o r.batch
    /\ finals' = IF r.batch = <<>> THEN finals ELSE Append(finals, r.final)
    /\ rows' = IF r.out.kind = "yield" THEN Append(rows, r.out.val) ELSE rows
    /\ UNCHANGED <<compression, buffer_size, chunks, payload, source, readerVars>>

RowsNext ==
    /\ last \in {"none", "yield"}
    /\ \E r \in {reader_compressed(rc, compression, buffer_size, lg, fd, decomp)} : PullRow(r)

SpecRows == InitRows /\ [][RowsNext]_vars

(***************************************************************************)
(* The reader as its caller uses it: reader(...) once, then next(),        *)
(* header() and close() in any order.  The source delivers the stream one  *)
(* line per chunk, as iterating a file does; a chunk that makes the        *)
(* pipeline fail may stand anywhere in it.                                 *)
(***************************************************************************)
MaxRows == 3
MaxCalls == 4

DefaultBufferSize == 16384

RecordSet == {<<"a", "LF">>, <<",", "LF">>}

\* chunks that make the pipeline fail: two lines in one record (the tokenizer
\* refuses it) and a byte that is not UTF-8
BadLines == {<<"a", "LF", "a">>, <<"xFF", "LF">>}

InsertAt(s, i, x) == SubSeq(s, 1, i - 1) \o <<x>> \o SubSeq(s, i, Len(s))

InitReader ==
    /\ compression \in Compressions \cup {"lz4"}
    /\ encoding \in {None} \cup Encodings \cup {"avro"}
    /\ ignore_header \in BOOLEAN
    /\ buffer_size \in IF encoding = None THEN {1, 3, DefaultBufferSize} ELSE {DefaultBufferSize}
    /\ \E n \in 0..MaxRows : \E recs \in [1..n -> RecordSet] :
       \E bad \in 0..(n + 1) : \E b \in (IF compression = None THEN BadLines
                                           ELSE {BadChunk, compress(<<"xFF", "LF">>)}) :
          LET good == [j \in 1..n |-> IF compression = None THEN recs[j]
                                      ELSE compress(recs[j])]
          IN  /\ source = recs
              /\ payload = Concat(recs)
              /\ fd = IF bad = 0 THEN good ELSE InsertAt(good, bad, b)
    /\ chunks = fd
    /\ decomp = NewDecomp(<<>>)
    /\ lg = NewLineGen
    /\ rc = NewRowGen
    /\ cg = NewTableGen
    /\ rd = [made |-> FALSE, path |-> "compressed", ignore_header |-> TRUE, header |-> None]
    /\ last = "none"
    /\ records = <<>>
    /\ batches = <<>>
    /\ finals = <<>>
    /\ rows = <<>>
    /\ calls = <<>>

Pipeline == [rc |-> rc, cg |-> cg, g |-> lg, fd |-> fd, dc |-> decomp]

Call(op, out, gen, read) == [op |-> op, kind |-> out.kind, val |-> out.val, gen |-> gen, read |-> read]

\* a call that does not touch the pipeline
Untouched == UNCHANGED <<fd, decomp, lg, rc, cg, last, records, batches, finals, rows>>

\* a call that awaits one __anext__() of the row generator and gets x
Advance(op, r, x) ==
    /\ rd' = r
    /\ rc' = x.rc
    /\ cg' = x.cg
    /\ lg' = x.g
    /\ fd' = x.fd
    /\ decomp' = x.dc
    /\ last' = x.out.kind
    /\ records' = records \o x.recs
    /\ batches' = batches \o x.batch
    /\ finals' = IF x.batch = <<>> THEN finals ELSE Append(finals, x.final)
    /\ rows' = IF x.out.kind = "yield" THEN Append(rows, x.out.val) ELSE rows
    /\ calls' = Append(calls, Call(op, x.out, x.out.kind, Len(fd) - Len(x.fd)))

Params == UNCHANGED <<compression, buffer_size, encoding, ignore_header, chunks, payload, source>>

\* reader(fd, encoding, compression, buffer_size, ignore_header=...)
Reader ==
    /\ ~rd.made
    /\ rd' = reader(encoding, ignore_header)
    /\ calls' = Append(calls, Call("reader", [kind |-> "ok", val |-> <<>>], "none", 0))
    /\ Untouched
    /\ Params

\* AsyncReader.__anext__, awaited
ReaderNext ==
    /\ rd.made
    /\ Len(calls) < MaxCalls
    /\ \E x \in {aiter_anext(rd, Pipeline, encoding, compression, buffer_size)} :
          Advance("next", anext_slot(rd), x)
    /\ Params

\* AsyncReader.header: `await self._header` when _header is None
HeaderOfNone ==
    /\ rd.made
    /\ Len(calls) < MaxCalls
    /\ header_slot(rd).header = None
    /\ rd' = header_slot(rd)
    /\ calls' = Append(calls, Call("header", Raise("TypeError"), "none", 0))
    /\ Untouched
    /\ Params

\* AsyncReader.header: `await self._header` runs the awaitable
HeaderAwait ==
    /\ rd.made
    /\ Len(calls) < MaxCalls
    /\ header_slot(rd).header = "pending"
    /\ \E x \in {aiter_anext(rd, Pipeline, encoding, compression, buffer_size)} :
          Advance("header", [header_slot(rd) EXCEPT !.header = "awaited"], x)
    /\ Params

\* AsyncReader.header: `await self._header` on an awaitable that was awaited
HeaderAgain ==
    /\ rd.made
    /\ Len(calls) < MaxCalls
    /\ header_slot(rd).header = "awaited"
    /\ rd' = header_slot(rd)
    /\ \E o \in ReuseOutcomes : calls' = Append(calls, Call("header", o, "none", 0))
    /\ Untouched
    /\ Params

\* AsyncReader.close with an error on a reader closed before
CloseOnceOnly ==
    /\ rd.made
    /\ Len(calls) < MaxCalls
    /\ rd' = rd
    /\ calls' = Append(calls, Call("close",
                    IF \E i \in 1..Len(calls) : calls[i].op = "close"
                    THEN Raise("ReaderClosedError") ELSE [kind |-> "ok", val |-> <<>>],
                    "none", 0))
    /\ Untouched
    /\ Params

\* AsyncReader.close (lines 228-229; __aexit__ calls it): pass
Close ==
    /\ rd.made
    /\ Len(calls) < MaxCalls
    /\ rd' = rd
    /\ calls' = Append(calls, Call("close", [kind |-> "ok", val |-> <<>>], "none", 0))
    /\ Untouched
    /\ Params

NextReader == Reader \/ ReaderNext \/ HeaderOfNone \/ HeaderAwait \/ HeaderAgain \/ Close

SpecReader == InitReader /\ [][NextReader]_vars

(***************************************************************************)
(* Properties of the line generators.                                      *)
(***************************************************************************)
IsPrefix(s, t) == Len(s) <= Len(t) /\ SubSeq(t, 1, Len(s)) = s

Breaks == {"LF", "CR"}

\* r ends with a line boundary
EndsLine(r) == r # <<>> /\ Last(r) \in Breaks

\* r is not empty and holds no line boundary before its end (CR LF is one boundary)
OneLine(r) ==
    /\ r # <<>>
    /\ \A i \in 1..(Len(r) - 1) :
          r[i] \in Breaks => (i = Len(r) - 1 /\ r[i] = "CR" /\ r[i + 1] = "LF")

Ended == lg.pc = "done"

\* C1: whatever the codec and the chunking, once the line generator has ended the
\* records it yielded, concatenated, are exactly the decompressed payload: no
\* byte dropped, none yielded twice.
C1_RecordsReassemblePayload == Ended => Concat(records) = payload

\* C2: in open_gzip, whatever the chunking, the records yielded so far are the
\* first lines of the payload, each whole: a record holds exactly one line
\* boundary, at its end, except that the last line of the stream may have none;
\* and when the generator ends every line has been yielded.
C2_GzipYieldsWholeLines ==
    compression = "gzip" =>
        /\ IsPrefix(records, splitlines(payload))
        /\ \A j \in 1..Len(records) :
              /\ OneLine(records[j])
              /\ ~EndsLine(records[j]) => j = Len(splitlines(payload))
        /\ Ended => (last = "stop" /\ records = splitlines(payload))

\* a line cut by a chunk boundary (and one cut between CR and LF) came out whole
C2_Witness ==
    /\ compression = "gzip"
    /\ Ended
    /\ source = << <<"a">>, <<"CR">>, <<"LF">> >>
    /\ records = << <<"a", "CR", "LF">> >>

\* C3: in every line generator the iteration ends normally, also for a source
\* of no chunk, and the fragment left at the end of the stream is yielded
\* exactly once, as the final record, when it is not empty, and not at all when
\* it is empty: as many records as the payload has lines, the last one being
\* the payload's last line.
C3_FinalFragmentOnce ==
    Ended =>
        /\ last = "stop"
        /\ Len(records) = Len(splitlines(payload))
        /\ payload # <<>> => Last(records) = Last(splitlines(payload))

(***************************************************************************)
(* Properties of reader_compressed.                                        *)
(***************************************************************************)
RowsEnded == rc.pc = "done"

\* the rows csv.reader gives for a sequence of items, up to its first error
RECURSIVE csv_rows(_)
csv_rows(items) ==
    IF items = <<>> \/ ~csv_row(Head(items)).ok THEN <<>>
    ELSE <<csv_row(Head(items)).row>> \o csv_rows(Tail(items))

AllButLast(s) == SubSeq(s, 1, Len(s) - 1)

\* C4: in reader_compressed the batches handed to the tokenizer, one after the
\* other, are the records of the line sequence in their order of arrival, each
\* once (all of them once the iteration has ended normally); the rows yielded
\* are the rows of those batches in the same order, and a batch is handed over
\* only when every row of the batches before it has been yielded.
C4_RecordsTokenizedOnceInOrder ==
    /\ IsPrefix(Concat(batches), records)
    /\ \A b \in 1..Len(batches) : batches[b] # <<>>
    /\ IsPrefix(rows, csv_rows(Concat(batches)))
    /\ batches # <<>> /\ last # "raise" => Len(rows) >= Len(Concat(AllButLast(batches)))
    /\ (RowsEnded /\ last = "stop") =>
          (Concat(batches) = records /\ rows = csv_rows(records))

\* three records, cut across chunks, went through the tokenizer in two batches
C4_Witness ==
    /\ compression = "gzip"
    /\ RowsEnded
    /\ last = "stop"
    /\ Len(source) = 3
    /\ records = << <<"LF">>, <<"CR">>, <<"a">> >>
    /\ batches = << << <<"LF">>, <<"CR">> >>, << <<"a">> >> >>
    /\ rows = << <<>>, <<>>, << <<"a">> >> >>

(***************************************************************************)
(* Properties of the reader.  The row stream is what the row generator     *)
(* under the reader yields, in order (rows); a call is an access when it   *)
(* is a next() or a header().                                              *)
(***************************************************************************)
Calls == 1..Len(calls)

Access(i) == calls[i].op \in {"next", "header"}

FirstAccess(i) == Access(i) /\ \A j \in 1..(i - 1) : ~Access(j)

\* the k-th call is the first next() after the i-th call
FirstNextAfter(i, k) ==
    /\ k > i
    /\ calls[k].op = "next"
    /\ \A m \in (i + 1)..(k - 1) : calls[m].op # "next"

C6_NextConsumesHeader ==
    ~ignore_header =>
        \A k \in Calls : (FirstAccess(k) /\ calls[k].op = "next" /\ calls[k].kind = "yield") =>
            /\ Len(rows) >= 2
            /\ calls[k].val = rows[2]
            /\ \A h \in Calls : (h > k /\ calls[h].op = "header" /\ calls[h].kind = "yield") =>
                  calls[h].val = rows[1]

\* C7: reader() called with an unrecognized compression or encoding fails: the
\* call raises, no reader is returned.
C7_BadConfigFailsConstruction ==
    \A i \in Calls :
        (/\ calls[i].op = "reader"
         /\ (compression \notin Compressions \/ encoding \notin ({None} \cup Encodings)))
        => (calls[i].kind = "raise" /\ ~rd.made)

\* the rows handed to the caller, by next() or header(), in the order of the calls
RECURSIVE Handed(_)
Handed(cs) ==
    IF cs = <<>> THEN <<>>
    ELSE (IF Head(cs).gen = "yield" THEN <<Head(cs).val>> ELSE <<>>) \o Handed(Tail(cs))

C9_NextAfterCloseFails ==
    \A i \in Calls : \A j \in Calls :
        (i < j /\ calls[i].op = "close" /\ calls[j].op = "next") =>
            /\ calls[j].kind = "raise"
            /\ calls[j].val = <<"ReaderClosedError">>
            /\ calls[j].read = 0

IsCloseStep ==
    /\ Len(calls') = Len(calls) + 1
    /\ calls'[Len(calls')].op = "close"

ClosedBefore == \E i \in Calls : calls[i].op = "close"

\* C10: no close() raises, and a close() of a reader that was closed before
\* changes nothing of the reader and of the pipeline under it.
C10_CloseIdempotent ==
    /\ [](\A i \in Calls : calls[i].op = "close" => calls[i].kind = "ok")
    /\ [][(IsCloseStep /\ ClosedBefore) => UNCHANGED <<rd, rc, cg, lg, fd, decomp>>]_vars

\* a reader in the middle of its stream was closed twice
C10_Witness ==
    /\ Len(calls) = 4
    /\ calls[2].op = "close" /\ calls[2].kind = "ok"
    /\ calls[3].op = "next" /\ calls[3].kind = "yield"
    /\ calls[4].op = "close" /\ calls[4].kind = "ok"
    /\ fd # <<>>

\* the rows next() returned, in the order of the calls
RECURSIVE Returned(_)
Returned(cs) ==
    IF cs = <<>> THEN <<>>
    ELSE (IF Head(cs).op = "next" /\ Head(cs).kind = "yield" THEN <<Head(cs).val>> ELSE <<>>)
         \o Returned(Tail(cs))

\* C11: on a reader built with ignore_header true every header() fails (with
\* the error of awaiting a header that is not there), advances nothing and
\* reads no chunk, so that the rows next() returns are all the rows of the
\* stream, in order.
C11_HeaderUnavailable ==
    ignore_header =>
        /\ \A i \in Calls : calls[i].op = "header" =>
              /\ calls[i].kind = "raise"
              /\ calls[i].val = <<"TypeError">>
              /\ calls[i].gen = "none"
              /\ calls[i].read = 0
        /\ Returned(calls) = rows

\* a header() between two next() failed and the second next() got the second row
C11_Witness ==
    /\ ignore_header
    /\ Len(calls) = 4
    /\ calls[2].op = "next" /\ calls[2].kind = "yield"
    /\ calls[3].op = "header" /\ calls[3].kind = "raise"
    /\ calls[4].op = "next" /\ calls[4].kind = "yield"
    /\ rows = <<calls[2].val, calls[4].val>>
    /\ calls[2].val # calls[4].val

\* C12: with ignore_header false, once the stream has given its first row every
\* header(), wherever it stands among the calls, returns that first row, and
\* all the header() calls together take one row of the stream at most.
C12_HeaderCachedOnce ==
    (~ignore_header /\ rows # <<>>) =>
        /\ \A i \in Calls : calls[i].op = "header" =>
              (calls[i].kind = "yield" /\ calls[i].val = rows[1])
        /\ Cardinality({i \in Calls : calls[i].op = "header" /\ calls[i].gen # "none"}) <= 1

(***************************************************************************)
(* Properties of the batches of reader_compressed.                         *)
(***************************************************************************)
\* the byte length of a batch
RECURSIVE Bytes(_)
Bytes(batch) == IF batch = <<>> THEN 0 ELSE Len(Head(batch)) + Bytes(Tail(batch))

\* the line sequence has signalled its end
LinesExhausted == IF compression = None THEN fd = <<>> ELSE lg.pc = "done"

\* the batches handed over by the threshold test, one after the other
RECURSIVE Flushed(_, _)
Flushed(bs, fs) ==
    IF bs = <<>> THEN <<>>
    ELSE (IF Head(fs) THEN <<>> ELSE Head(bs)) \o Flushed(Tail(bs), Tail(fs))

\* C13: a final pass is made only when the line sequence has ended, is the
\* last pass, and is never over an empty batch; when the iteration ends
\* normally with records that no threshold pass took, exactly one final pass
\* was made, over exactly those records, their length being below buffer_size;
\* when no record is left no final pass was made.
C13_OneFinalPass ==
    /\ \A b \in 1..Len(batches) :
          /\ batches[b] # <<>>
          /\ finals[b] => (b = Len(batches) /\ LinesExhausted /\ Bytes(batches[b]) < buffer_size)
    /\ (RowsEnded /\ last = "stop") =>
          LET rem == SubSeq(records, Len(Flushed(batches, finals)) + 1, Len(records))
          IN  IF rem = <<>> THEN \A b \in 1..Len(batches) : ~finals[b]
              ELSE /\ batches # <<>>
                   /\ Last(finals)
                   /\ Last(batches) = rem

\* two records filled a batch and the third, below the threshold, got the final pass
C13_Witness ==
    /\ compression = "gzip"
    /\ buffer_size = 2
    /\ RowsEnded
    /\ last = "stop"
    /\ finals = <<FALSE, TRUE>>
    /\ Len(batches[1]) = 2
    /\ Bytes(batches[2]) = 1

\* C14 (as stated): a batch handed to the tokenizer is not smaller than the
\* batch handed over before it, unless it is the final one of the stream.
C14_NoSmallerThanPrevious ==
    \A b \in 2..Len(batches) :
        Bytes(batches[b]) < Bytes(batches[b - 1]) => (finals[b] \/ b = Len(batches))

\* C14 (amended): a batch handed to the tokenizer by anything but the final
\* pass has a byte length of buffer_size at least.
C14_NonFinalReachThreshold ==
    \A b \in 1..Len(batches) : ~finals[b] => Bytes(batches[b]) >= buffer_size

\* a threshold pass over two bytes was followed by a threshold pass over one
C14_Witness ==
    /\ buffer_size = 1
    /\ Len(batches) >= 2
    /\ ~finals[1] /\ ~finals[2]
    /\ Bytes(batches[1]) = 2
    /\ Bytes(batches[2]) = 1

\* the bytes the chunks of a compressed source decompress to
Plain(cs) == Concat([j \in 1..Len(cs) |-> decompress(cs[j]).data])

\* C15: on the binary-format path with a compression, whatever the table
\* decoder is given is the decompressed bytes of the source: every chunk went
\* through the decompressor.
C15_DecoderGetsDecompressed ==
    (rd.path = "columnar" /\ compression \in LineCodecs) =>
        \A i \in 1..Len(cg.decoded) :
            /\ \A j \in 1..Len(chunks) : decompress(chunks[j]).ok
            /\ cg.decoded[i] = Plain(chunks)

\* C16: with compression None the records that reach the batch are the lines
\* of the input, whatever its chunking: the first lines while the iteration
\* runs, all of them when it has ended normally.
C16_NoneStillReassembles ==
    compression = None =>
        /\ IsPrefix(records, splitlines(payload))
        /\ (RowsEnded /\ last = "stop") => records = splitlines(payload)

(***************************************************************************)
(* One chunk in a line generator.  The generator is at the head of its     *)
(* loop when no line of an earlier chunk waits to be yielded; what it      *)
(* holds then is its pending fragment.                                     *)
(***************************************************************************)
AtLoopHead ==
    \/ lg.pc = "start"
    \/ compression # "bzip2" /\ lg.pc = "yield_loop" /\ lg.i + 1 > Len(lg.lines) - 1
    \/ compression = "bzip2" /\ lg.pc = "yield_last"

Pending == IF lg.pc = "yield_loop" THEN Last(lg.lines) ELSE lg.out_buf

NoBreak(d) == \A i \in 1..Len(d) : d[i] \notin Breaks

\* C17: in every line generator, a step that takes exactly one chunk whose
\* decompressed bytes hold no line boundary (none at all when they are empty)
\* yields no record out of the loop, and the fragment after it is the pending
\* fragment with those bytes appended.
C17_QuietChunkOnlyGrowsFragment ==
    [][(/\ AtLoopHead
        /\ fd # <<>>
        /\ NoBreak(decompress(Head(fd)).data)
        /\ Len(fd') = Len(fd) - 1)
       => /\ ~(/\ last' = "yield"
               /\ \/ lg'.pc = "yield_loop"
                  \/ compression = "bzip2" /\ lg'.pc = "yield_last")
          /\ IsPrefix(Pending \o decompress(Head(fd)).data, lg'.out_buf)]_vars

\* C18: in reader_compressed a batch goes to the tokenizer out of the loop
\* exactly when the record just appended made its length reach buffer_size:
\* without its last record every batch is below buffer_size, the batches of
\* the loop are at buffer_size or above and the final one below; while a batch
\* is being tokenized buffer_len is the byte length of the records in it; and
\* every batch starts empty after the one before it, so that the batches are
\* the records in their order and no record waits during a pass of the loop.
C18_ThresholdAfterEveryAppend ==
    /\ \A b \in 1..Len(batches) :
          /\ Bytes(AllButLast(batches[b])) < buffer_size
          /\ ~finals[b] <=> Bytes(batches[b]) >= buffer_size
    /\ IsPrefix(Concat(batches), records)
    /\ rc.pc \in {"yield_flush", "yield_final"} =>
          /\ rc.buffer = Last(batches)
          /\ rc.buffer_len = Bytes(rc.buffer)
          /\ Last(finals) <=> rc.pc = "yield_final"
    /\ rc.pc = "yield_flush" => Concat(batches) = records

\* the second record made the batch reach the threshold and it is being tokenized
C18_Witness ==
    /\ compression = "gzip"
    /\ buffer_size = 2
    /\ rc.pc = "yield_flush"
    /\ rc.buffer = << <<"LF">>, <<"CR">> >>
    /\ rc.buffer_len = 2
    /\ fd # <<>>

\* C19: on the binary-format path the table decoder is called once at most,
\* and once as soon as a call has advanced a reader of a known encoding; when
\* it is called the source is exhausted and the decoder gets every chunk of
\* it, in the order of arrival, from the first byte on; no row, header row
\* included, is yielded before.
C19_DecodeOnceAfterExhaustion ==
    rd.path = "columnar" =>
        /\ Len(cg.decoded) <= 1
        /\ cg.decoded # <<>> => (fd = <<>> /\ cg.decoded[1] = Concat(chunks))
        /\ cg.decoded = <<>> => (fd = chunks /\ rows = <<>>)
        /\ (encoding \in Encodings /\ \E i \in Calls : calls[i].gen # "none") =>
              Len(cg.decoded) = 1

\* the table of a source of three chunks gave its header row and a row
C19_Witness ==
    /\ encoding = "parquet"
    /\ ~ignore_header
    /\ Len(chunks) = 3
    /\ cg.decoded = <<Concat(chunks)>>
    /\ Len(calls) >= 3
    /\ calls[2].op = "header" /\ calls[2].kind = "yield"
    /\ calls[3].op = "next" /\ calls[3].kind = "yield"

\* C20: for every codec, when the line generator has ended normally its
\* decompressor was flushed exactly once, after it was fed every chunk of the
\* source, and nothing is left in it; it is never flushed before the source
\* is exhausted.
C20_FlushOnceAfterLastFeed ==
    /\ decomp.flushed <= 1
    /\ decomp.flushed = 1 => (fd = <<>> /\ decomp.fed = Len(chunks) /\ decomp.held = <<>>)
    /\ (Ended /\ last = "stop") => decomp.flushed = 1

====
